---------------------------- MODULE Spec2Model ----------------------------
(***************************************************************************)
(* Photobooth (src/app/page.tsx): the PhotoBoothApp React component as a   *)
(* state machine.  The component's useState cells are the variables named  *)
(* as in the source; `rendered` is what the last committed render showed   *)
(* (the part of it that the refs, the effects and the handlers' closures    *)
(* read).  Click handlers commit their updates before the next event;      *)
(* updates made from timer callbacks and promise continuations stay        *)
(* pending until Render.  React schedules that render at once, so it runs  *)
(* before the next click and before the next timer of the component; the   *)
(* platform's own completions (getUserMedia, the preview's events) and the *)
(* teardown may come first.  After the component is unmounted its state    *)
(* setters do nothing and its refs are null, while timers and promises     *)
(* already started still run.                                              *)
(***************************************************************************)
EXTENDS Naturals, Sequences, FiniteSets

\* ------------------------------------------------------------------ bounds
MaxStarts == 2
MaxFilters == 2

\* --------------------------------------------------------------- constants
NoStream == 0

NoCountdown == "null"

availableFilters ==
  << [name |-> "90s",        css |-> "sepia(0.8) saturate(1.4) hue-rotate(315deg) brightness(1.1)"],
     [name |-> "2000s",      css |-> "saturate(1.6) contrast(1.2) brightness(1.1) hue-rotate(10deg)"],
     [name |-> "Noir",       css |-> "grayscale(1) contrast(1.3) brightness(0.9)"],
     [name |-> "Fisheye",    css |-> "contrast(1.2) saturate(1.3)"],
     [name |-> "Rainbow",    css |-> "hue-rotate(180deg) saturate(2) brightness(1.2)"],
     [name |-> "Glitch",     css |-> "hue-rotate(90deg) saturate(2) contrast(1.5)"],
     [name |-> "Crosshatch", css |-> "contrast(1.4) brightness(0.8) saturate(0.8)"] >>

FilterType == { availableFilters[k].name : k \in 1..Len(availableFilters) }

\* The filter buttons the user presses in the checked behaviours.
Filters == { availableFilters[k].name : k \in 1..MaxFilters }

InitialFilter == "2000s"

cameraConfigs == << "idealUserFacing", "anyVideo", "fixed640x480" >>

\* Mutant of countdownSequence: the smile cue is missing.
countdownSequence_NoCue == << "3...", "2...", "1..." >>

countdownSequence == << "3...", "2...", "1...", "Smile..." >>

Starts == 1..MaxStarts

VARIABLES
  stream, isCapturing, countdown, capturedPhotos, currentFilter,
  showPhotoStrip, isLoading, showCurtains, curtainsAnimating,
  mounted,        \* the component is mounted
  rendered,       \* the state the last committed render was made from
  videoSrc,       \* srcObject of the mounted <video>, NoStream when none
  tracks,         \* per acquired stream: "none" | "live" | "stopped"
  supported,      \* navigator.mediaDevices.getUserMedia exists
  acqPc,          \* per session start: where its requestCameraAccess is
  attempts,       \* per session start: the getUserMedia calls made so far
  acquired,       \* per session start: the stream getUserMedia gave it
  surfaced,       \* per session start: the error its alert() showed
  readySignalled, \* streams whose preview reached play() after loadedmetadata
  inflight,       \* the running handlePhotoCapture calls
  reviewTimers,   \* pending setTimeout(() => setShowPhotoStrip(true), 500)
  stripTimers,    \* pending setTimeout(createPhotoStrip, 100): the stills
                  \* each createPhotoStrip closed over
  stripCanvas,    \* what is drawn on the mounted photo strip <canvas>
  stripJobs,      \* createPhotoStrip calls with images still to load
  lastEvent       \* the event handled last

vars == << stream, isCapturing, countdown, capturedPhotos, currentFilter,
           showPhotoStrip, isLoading, showCurtains, curtainsAnimating,
           mounted, rendered, videoSrc, tracks, supported, acqPc, attempts,
           acquired, surfaced, readySignalled, inflight, reviewTimers,
           stripTimers, stripCanvas, stripJobs, lastEvent >>

\* ------------------------------------------------------------------- views
\* Which of the component's three return statements a state renders.
ViewOf(curtains, loading, strip) ==
  IF curtains THEN "curtains"
  ELSE IF loading THEN "loading"
  ELSE IF strip THEN "strip"
  ELSE "booth"

Phase ==
  IF showCurtains THEN "Intro"
  ELSE IF isLoading THEN "AwaitingDevice"
  ELSE IF showPhotoStrip THEN "Reviewing"
  ELSE "Live"

Snapshot ==
  [ view          |-> ViewOf(showCurtains, isLoading, showPhotoStrip),
    stream        |-> stream,
    isCapturing   |-> isCapturing,
    photos        |-> Len(capturedPhotos),
    currentFilter |-> currentFilter ]

RenderPending == mounted /\ rendered # Snapshot

\* videoRef.current and canvasRef.current are set only while their elements
\* are in the committed view.
VideoRefCurrent == mounted /\ rendered.view = "booth"

CanvasRefCurrent == mounted /\ rendered.view \in {"booth", "strip"}

\* A state setter of an unmounted component changes nothing.
SetState(old, new) == IF mounted THEN new ELSE old

\* The cleanup of the [stream] effect: it stops the tracks of the stream the
\* effect was created with.
StopTracksOf(s, t) == IF s # NoStream THEN [t EXCEPT ![s] = "stopped"] ELSE t

\* The <video> element after a commit to view v with stream s: an element
\* that stays mounted keeps its srcObject, a newly mounted one has none, and
\* the binding effect runs only when `stream` changed.
VideoSrcAfterCommit(v, s) ==
  IF v # "booth" THEN NoStream
  ELSE IF s # rendered.stream /\ s # NoStream THEN s
  ELSE IF rendered.view = "booth" THEN videoSrc
  ELSE NoStream

\* The photo strip <canvas> exists only in the strip view.
StripCanvasRefCurrent == mounted /\ rendered.view = "strip"

\* A newly mounted <canvas>: nothing drawn on it.
BlankCanvas == [ background |-> FALSE, placed |-> {}, caption |-> << >> ]

\* The effect on [showPhotoStrip, capturedPhotos, createPhotoStrip] of the
\* commit of this step: it runs when a dependency changed (the strip view
\* is shown exactly when showPhotoStrip is set, and every change of the
\* stills changes their number), and schedules createPhotoStrip when the
\* strip is shown with three stills.
StripEffectDue ==
  /\ showPhotoStrip' /\ Len(capturedPhotos') = 3
  /\ \/ (Snapshot'.view = "strip") # (rendered.view = "strip")
     \/ Len(capturedPhotos') # rendered.photos

\* A commit of the state as it is after this step: the DOM, the closures and
\* the effects (cleanup of the old [stream] effect, then the new binding;
\* the strip effect).  A <canvas> that leaves the DOM takes what was drawn
\* on it, and what is still being drawn on it, out of sight.
Commit ==
  /\ rendered' = Snapshot'
  /\ tracks' = IF stream' # rendered.stream
                 THEN StopTracksOf(rendered.stream, tracks)
                 ELSE tracks
  /\ videoSrc' = VideoSrcAfterCommit(Snapshot'.view, stream')
  /\ stripTimers' = IF StripEffectDue
                      THEN Append(stripTimers, capturedPhotos')
                      ELSE stripTimers
  /\ IF Snapshot'.view = "strip" /\ rendered.view = "strip"
       THEN UNCHANGED << stripCanvas, stripJobs >>
       ELSE stripCanvas' = BlankCanvas /\ stripJobs' = << >>

NoCommit ==
  UNCHANGED << rendered, videoSrc, stripTimers, stripCanvas, stripJobs >>

Init ==
  /\ stream = NoStream
  /\ isCapturing = FALSE
  /\ countdown = NoCountdown
  /\ capturedPhotos = << >>
  /\ currentFilter = InitialFilter
  /\ showPhotoStrip = FALSE
  /\ isLoading = TRUE
  /\ showCurtains = TRUE
  /\ curtainsAnimating = FALSE
  /\ mounted = TRUE
  /\ rendered = Snapshot
  /\ videoSrc = NoStream
  /\ tracks = [s \in Starts |-> "none"]
  /\ supported \in BOOLEAN
  /\ acqPc = [i \in Starts |-> "idle"]
  /\ attempts = [i \in Starts |-> << >>]
  /\ acquired = [i \in Starts |-> NoStream]
  /\ surfaced = [i \in Starts |-> "none"]
  /\ readySignalled = {}
  /\ inflight = << >>
  /\ reviewTimers = 0
  /\ stripTimers = << >>
  /\ stripCanvas = BlankCanvas
  /\ stripJobs = << >>
  /\ lastEvent = "init"


\* ------------------------------------------------- session start, teardown
\* The session starts not begun yet; a click begins the lowest one.
NextStart == CHOOSE i \in Starts : acqPc[i] = "idle" /\ \A j \in Starts : j < i => acqPc[j] # "idle"

\* Mutant of InsertCoin: requestCameraAccess is called by the click itself,
\* without the 2 s timer.
InsertCoin_NoDelay ==
  /\ ~RenderPending
  /\ mounted
  /\ rendered.view = "curtains"
  /\ \E i \in Starts : acqPc[i] = "idle"
  /\ curtainsAnimating' = TRUE
  /\ acqPc' = [acqPc EXCEPT ![NextStart] = "getUserMedia"]
  /\ attempts' = [attempts EXCEPT ![NextStart] = << [config |-> 1, outcome |-> "pending"] >>]
  /\ lastEvent' = "insertCoin"
  /\ UNCHANGED << stream, isCapturing, countdown, capturedPhotos, currentFilter,
                  showPhotoStrip, isLoading, showCurtains >>
  /\ Commit
  /\ UNCHANGED << mounted, supported, acquired, surfaced, readySignalled,
                  inflight, reviewTimers >>

\* initializePhotoBooth: the click target stays in the curtains view for the
\* whole animation, so further clicks start further timers.
InsertCoin ==
  /\ ~RenderPending
  /\ mounted
  /\ rendered.view = "curtains"
  /\ \E i \in Starts : acqPc[i] = "idle"
  /\ curtainsAnimating' = TRUE
  /\ acqPc' = [acqPc EXCEPT ![NextStart] = "curtain"]
  /\ lastEvent' = "insertCoin"
  /\ UNCHANGED << stream, isCapturing, countdown, capturedPhotos, currentFilter,
                  showPhotoStrip, isLoading, showCurtains >>
  /\ Commit
  /\ UNCHANGED << mounted, supported, attempts, acquired, surfaced,
                  readySignalled, inflight, reviewTimers >>

\* The catch block of requestCameraAccess: it clears isLoading and alerts.
CatchCameraError(i, kind) ==
  /\ isLoading' = SetState(isLoading, FALSE)
  /\ surfaced' = [surfaced EXCEPT ![i] = kind]
  /\ acqPc' = [acqPc EXCEPT ![i] = "failed"]

\* Mutant of NextConfig: the loop skips a configuration.
NextConfig_Skip(k) == k + 2

\* The configuration the fallback loop tries after configuration k failed.
NextConfig(k) == k + 1

\* The 2 s timer of initializePhotoBooth fires: the curtains go and
\* requestCameraAccess runs up to its first await.
CurtainTimer(i) ==
  /\ ~RenderPending
  /\ acqPc[i] = "curtain"
  /\ showCurtains' = SetState(showCurtains, FALSE)
  /\ IF ~supported
       THEN /\ CatchCameraError(i, "DeviceUnsupported")
            /\ UNCHANGED attempts
       ELSE /\ attempts' = [attempts EXCEPT ![i] = << [config |-> 1, outcome |-> "pending"] >>]
            /\ acqPc' = [acqPc EXCEPT ![i] = "getUserMedia"]
            /\ UNCHANGED << isLoading, surfaced >>
  /\ lastEvent' = "curtainTimer"
  /\ NoCommit
  /\ UNCHANGED << stream, isCapturing, countdown, capturedPhotos, currentFilter,
                  showPhotoStrip, curtainsAnimating, mounted, tracks, supported,
                  acquired, readySignalled, inflight, reviewTimers >>

Settle(a, outcome) == [a EXCEPT ![Len(a)] = [@ EXCEPT !.outcome = outcome]]

\* getUserMedia resolves with a stream whose tracks are live; the loop
\* breaks, setStream, and with a mounted <video> the stream is bound to it
\* and its readiness awaited, else isLoading is cleared at once.
GetUserMediaResolves(i) ==
  /\ acqPc[i] = "getUserMedia"
  /\ attempts' = [attempts EXCEPT ![i] = Settle(@, "resolved")]
  /\ tracks' = [tracks EXCEPT ![i] = "live"]
  /\ acquired' = [acquired EXCEPT ![i] = i]
  /\ stream' = SetState(stream, i)
  /\ IF VideoRefCurrent
       THEN /\ videoSrc' = i
            /\ acqPc' = [acqPc EXCEPT ![i] = "loadedmetadata"]
            /\ UNCHANGED isLoading
       ELSE /\ isLoading' = SetState(isLoading, FALSE)
            /\ acqPc' = [acqPc EXCEPT ![i] = "done"]
            /\ UNCHANGED videoSrc
  /\ lastEvent' = "getUserMediaResolved"
  /\ UNCHANGED << rendered, stripTimers, stripCanvas, stripJobs >>
  /\ UNCHANGED << isCapturing, countdown, capturedPhotos, currentFilter,
                  showPhotoStrip, showCurtains, curtainsAnimating, mounted,
                  supported, surfaced, readySignalled, inflight, reviewTimers >>

\* getUserMedia rejects: the loop goes on to the next configuration, and
\* after the last one the error is thrown to the catch block.
GetUserMediaRejects(i) ==
  /\ acqPc[i] = "getUserMedia"
  /\ LET k == attempts[i][Len(attempts[i])].config
         settled == Settle(attempts[i], "rejected")
     IN IF NextConfig(k) <= Len(cameraConfigs)
          THEN /\ attempts' = [attempts EXCEPT ![i] =
                      Append(settled, [config |-> NextConfig(k), outcome |-> "pending"])]
               /\ UNCHANGED << isLoading, surfaced, acqPc >>
          ELSE /\ attempts' = [attempts EXCEPT ![i] = settled]
               /\ CatchCameraError(i, "DeviceAcquisitionFailed")
  /\ lastEvent' = "getUserMediaRejected"
  /\ NoCommit
  /\ UNCHANGED << stream, isCapturing, countdown, capturedPhotos, currentFilter,
                  showPhotoStrip, showCurtains, curtainsAnimating, mounted, tracks,
                  supported, acquired, readySignalled, inflight, reviewTimers >>

\* loadedmetadata arrives on the <video> bound to this stream and play()
\* resolves: the awaited promise resolves and isLoading is cleared.
PreviewReady(i) ==
  /\ acqPc[i] = "loadedmetadata"
  /\ VideoRefCurrent
  /\ videoSrc = acquired[i]
  /\ readySignalled' = readySignalled \cup {acquired[i]}
  /\ isLoading' = SetState(isLoading, FALSE)
  /\ acqPc' = [acqPc EXCEPT ![i] = "done"]
  /\ lastEvent' = "previewReady"
  /\ NoCommit
  /\ UNCHANGED << stream, isCapturing, countdown, capturedPhotos, currentFilter,
                  showPhotoStrip, showCurtains, curtainsAnimating, mounted, tracks,
                  supported, attempts, acquired, surfaced, inflight, reviewTimers >>

\* The awaited promise rejects: the video's error event, a rejected play(),
\* or the 10 s timeout.
PreviewFails(i) ==
  /\ acqPc[i] = "loadedmetadata"
  /\ CatchCameraError(i, "DeviceReadyTimeout")
  /\ lastEvent' = "previewFailed"
  /\ NoCommit
  /\ UNCHANGED << stream, isCapturing, countdown, capturedPhotos, currentFilter,
                  showPhotoStrip, showCurtains, curtainsAnimating, mounted, tracks,
                  supported, attempts, acquired, readySignalled, inflight,
                  reviewTimers >>

\* A pending render commits.
Render ==
  /\ RenderPending
  /\ UNCHANGED << stream, isCapturing, countdown, capturedPhotos, currentFilter,
                  showPhotoStrip, isLoading, showCurtains, curtainsAnimating >>
  /\ Commit
  /\ lastEvent' = "render"
  /\ UNCHANGED << mounted, supported, acqPc, attempts, acquired, surfaced,
                  readySignalled, inflight, reviewTimers >>

\* The component unmounts: the cleanup of the committed [stream] effect runs.
Unmount ==
  /\ mounted
  /\ mounted' = FALSE
  /\ tracks' = StopTracksOf(rendered.stream, tracks)
  /\ rendered' = [rendered EXCEPT !.view = "none"]
  /\ videoSrc' = NoStream
  /\ stripCanvas' = BlankCanvas
  /\ stripJobs' = << >>
  /\ UNCHANGED stripTimers
  /\ lastEvent' = "unmount"
  /\ UNCHANGED << stream, isCapturing, countdown, capturedPhotos, currentFilter,
                  showPhotoStrip, isLoading, showCurtains, curtainsAnimating,
                  supported, acqPc, attempts, acquired, surfaced, readySignalled,
                  inflight, reviewTimers >>


\* ---------------------------------------------------------------- capture
\* The css of the filter named f: availableFilters.find(...)?.css || "".
CssOf(f) ==
  IF \E k \in 1..Len(availableFilters) : availableFilters[k].name = f
    THEN availableFilters[CHOOSE k \in 1..Len(availableFilters) : availableFilters[k].name = f].css
    ELSE ""

\* Mutant of AtLimit: the limit test off by one.
AtLimit_OffByOne(n) == n > 3

\* capturedPhotos.length >= 3, as the handler's guard and the button test it.
AtLimit(n) == n >= 3

\* Mutant of SeesCapturing: the in-progress marker is never consulted.
SeesCapturing_Never == FALSE

\* isCapturing as the committed render's closure and DOM hold it.
SeesCapturing == rendered.isCapturing

\* The shutter button's disabled attribute.
ShutterDisabled == SeesCapturing \/ AtLimit(rendered.photos)

\* The guard of handlePhotoCapture, on the values its closure holds.
CaptureRejected == SeesCapturing \/ AtLimit(rendered.photos)

\* currentFilter as the captureCurrentFrame of the committed render holds it.
ClosureFilter == rendered.currentFilter

\* captureCurrentFrame, for the currentFilter f of its closure: no frame
\* (<< >>) without the video or the canvas element or a 2d context, else
\* the mirrored frame drawn through f's css.  The frame has pixels only
\* when the <video> is bound to a stream that still delivers them.
captureCurrentFrame(f, context) ==
  IF ~VideoRefCurrent \/ ~CanvasRefCurrent THEN << >>
  ELSE IF ~context THEN << >>
  ELSE << [ filter |-> CssOf(f),
            live   |-> videoSrc # NoStream /\ tracks[videoSrc] = "live" ] >>

\* Mutants of StripDue: the strip scheduled one still early, or never.
StripDue_Early(n) == n >= 2

StripDue_OffByOne(n) == n = 4

\* updatedPhotos.length === 3 in the setCapturedPhotos updater.
StripDue(n) == n = 3

\* A click on the shutter button of the booth view: nothing when the button
\* is disabled or the handler's guard rejects, else the capture starts and
\* shows the first countdown stage.
Shutter ==
  /\ ~RenderPending
  /\ mounted
  /\ rendered.view = "booth"
  /\ IF ShutterDisabled \/ CaptureRejected
       THEN /\ lastEvent' = "shutterRejected"
            /\ UNCHANGED << stream, isCapturing, countdown, capturedPhotos,
                            currentFilter, showPhotoStrip, isLoading, showCurtains,
                            curtainsAnimating, rendered, videoSrc, tracks, inflight,
                            stripTimers, stripCanvas, stripJobs >>
       ELSE /\ isCapturing' = TRUE
            /\ countdown' = countdownSequence[1]
            /\ inflight' = Append(inflight, [stage |-> 1, filter |-> ClosureFilter])
            /\ lastEvent' = "shutter"
            /\ UNCHANGED << stream, capturedPhotos, currentFilter, showPhotoStrip,
                            isLoading, showCurtains, curtainsAnimating >>
            /\ Commit
  /\ UNCHANGED << mounted, supported, acqPc, attempts, acquired, surfaced,
                  readySignalled, reviewTimers >>

\* One 1 s wait of the countdown loop ends and the next stage is shown.  A
\* 0.1 s strip timer started before the wait has fired by then.
CountdownTick(k) ==
  /\ ~RenderPending
  /\ stripTimers = << >>
  /\ k \in 1..Len(inflight)
  /\ inflight[k].stage < Len(countdownSequence)
  /\ inflight' = [inflight EXCEPT ![k] = [@ EXCEPT !.stage = @ + 1]]
  /\ countdown' = SetState(countdown, countdownSequence[inflight[k].stage + 1])
  /\ lastEvent' = "countdownTick"
  /\ NoCommit
  /\ UNCHANGED << stream, isCapturing, capturedPhotos, currentFilter,
                  showPhotoStrip, isLoading, showCurtains, curtainsAnimating,
                  mounted, tracks, supported, acqPc, attempts, acquired, surfaced,
                  readySignalled, reviewTimers >>

RemoveAt(q, k) == [j \in 1..(Len(q) - 1) |-> IF j < k THEN q[j] ELSE q[j + 1]]

\* Mutant of CaptureFrame: without a frame the handler returns before it
\* clears isCapturing.
CaptureFrame_ReturnsEarly(k) ==
  /\ ~RenderPending
  /\ k \in 1..Len(inflight)
  /\ inflight[k].stage = Len(countdownSequence)
  /\ \E context \in BOOLEAN :
       LET photoData == captureCurrentFrame(inflight[k].filter, context)
       IN IF photoData # << >>
            THEN /\ capturedPhotos' = SetState(capturedPhotos,
                        Append(capturedPhotos, [dataUrl |-> photoData[1]]))
                 /\ reviewTimers' = IF mounted /\ StripDue(Len(capturedPhotos'))
                                      THEN reviewTimers + 1 ELSE reviewTimers
                 /\ isCapturing' = SetState(isCapturing, FALSE)
                 /\ lastEvent' = "captured"
            ELSE /\ UNCHANGED << capturedPhotos, reviewTimers, isCapturing >>
                 /\ lastEvent' = "captureAborted"
  /\ countdown' = SetState(countdown, NoCountdown)
  /\ inflight' = RemoveAt(inflight, k)
  /\ NoCommit
  /\ UNCHANGED << stream, currentFilter, showPhotoStrip, isLoading, showCurtains,
                  curtainsAnimating, mounted, tracks, supported, acqPc, attempts,
                  acquired, surfaced, readySignalled >>

\* Mutant of CaptureFrame: the test `if (photoData)` is missing, so a null
\* frame is appended as a still too.
CaptureFrame_KeepsNullFrame(k) ==
  /\ ~RenderPending
  /\ k \in 1..Len(inflight)
  /\ inflight[k].stage = Len(countdownSequence)
  /\ \E context \in BOOLEAN :
       LET photoData == captureCurrentFrame(inflight[k].filter, context)
           frame == IF photoData # << >> THEN photoData[1]
                    ELSE [filter |-> "", live |-> FALSE]
       IN /\ capturedPhotos' = SetState(capturedPhotos,
                 Append(capturedPhotos, [dataUrl |-> frame]))
          /\ reviewTimers' = IF mounted /\ StripDue(Len(capturedPhotos'))
                               THEN reviewTimers + 1 ELSE reviewTimers
          /\ lastEvent' = IF photoData # << >> THEN "captured" ELSE "captureAborted"
  /\ countdown' = SetState(countdown, NoCountdown)
  /\ isCapturing' = SetState(isCapturing, FALSE)
  /\ inflight' = RemoveAt(inflight, k)
  /\ NoCommit
  /\ UNCHANGED << stream, currentFilter, showPhotoStrip, isLoading, showCurtains,
                  curtainsAnimating, mounted, tracks, supported, acqPc, attempts,
                  acquired, surfaced, readySignalled >>

\* The last wait ends: the countdown is cleared, the frame is rasterized by
\* the captureCurrentFrame the handler closed over, a still is appended when
\* there is a frame (scheduling the strip when that makes three), and
\* isCapturing is cleared.
CaptureFrame(k) ==
  /\ ~RenderPending
  /\ k \in 1..Len(inflight)
  /\ inflight[k].stage = Len(countdownSequence)
  /\ \E context \in BOOLEAN :
       LET photoData == captureCurrentFrame(inflight[k].filter, context)
       IN IF photoData # << >>
            THEN /\ capturedPhotos' = SetState(capturedPhotos,
                        Append(capturedPhotos, [dataUrl |-> photoData[1]]))
                 /\ reviewTimers' = IF mounted /\ StripDue(Len(capturedPhotos'))
                                      THEN reviewTimers + 1 ELSE reviewTimers
                 /\ lastEvent' = "captured"
            ELSE /\ UNCHANGED << capturedPhotos, reviewTimers >>
                 /\ lastEvent' = "captureAborted"
  /\ countdown' = SetState(countdown, NoCountdown)
  /\ isCapturing' = SetState(isCapturing, FALSE)
  /\ inflight' = RemoveAt(inflight, k)
  /\ NoCommit
  /\ UNCHANGED << stream, currentFilter, showPhotoStrip, isLoading, showCurtains,
                  curtainsAnimating, mounted, tracks, supported, acqPc, attempts,
                  acquired, surfaced, readySignalled >>

\* The 0.5 s timer scheduled by the third still fires.
ReviewTimer ==
  /\ ~RenderPending
  /\ reviewTimers > 0
  /\ reviewTimers' = reviewTimers - 1
  /\ showPhotoStrip' = SetState(showPhotoStrip, TRUE)
  /\ lastEvent' = "reviewTimer"
  /\ NoCommit
  /\ UNCHANGED << stream, isCapturing, countdown, capturedPhotos, currentFilter,
                  isLoading, showCurtains, curtainsAnimating, mounted, tracks,
                  supported, acqPc, attempts, acquired, surfaced, readySignalled,
                  inflight >>

\* A click on one of the filter buttons of the booth view.
SelectFilter(f) ==
  /\ ~RenderPending
  /\ mounted
  /\ rendered.view = "booth"
  /\ currentFilter' = f
  /\ lastEvent' = "selectFilter"
  /\ UNCHANGED << stream, isCapturing, countdown, capturedPhotos, showPhotoStrip,
                  isLoading, showCurtains, curtainsAnimating >>
  /\ Commit
  /\ UNCHANGED << mounted, supported, acqPc, attempts, acquired, surfaced,
                  readySignalled, inflight, reviewTimers >>

\* Mutant of ResetPhotos: the reset forgets to clear the stills.
ResetPhotos_Keep == capturedPhotos

\* Mutant of ResetPhotos: the reset drops the oldest still only.
ResetPhotos_DropOldest == Tail(capturedPhotos)

\* What resetPhotoBooth sets capturedPhotos to.
ResetPhotos == << >>

\* Mutant of resetPhotoBooth: the reset also lets go of the camera stream.
resetPhotoBooth_ReleasesCamera ==
  /\ ~RenderPending
  /\ mounted
  /\ rendered.view = "strip"
  /\ showPhotoStrip' = FALSE
  /\ capturedPhotos' = ResetPhotos
  /\ countdown' = NoCountdown
  /\ stream' = NoStream
  /\ lastEvent' = "reset"
  /\ UNCHANGED << isCapturing, currentFilter, isLoading, showCurtains,
                  curtainsAnimating >>
  /\ Commit
  /\ UNCHANGED << mounted, supported, acqPc, attempts, acquired, surfaced,
                  readySignalled, inflight, reviewTimers >>

\* Mutant of resetPhotoBooth: the reset also restores the initial filter.
resetPhotoBooth_ResetsFilter ==
  /\ ~RenderPending
  /\ mounted
  /\ rendered.view = "strip"
  /\ showPhotoStrip' = FALSE
  /\ capturedPhotos' = ResetPhotos
  /\ countdown' = NoCountdown
  /\ currentFilter' = InitialFilter
  /\ lastEvent' = "reset"
  /\ UNCHANGED << stream, isCapturing, isLoading, showCurtains,
                  curtainsAnimating >>
  /\ Commit
  /\ UNCHANGED << mounted, supported, acqPc, attempts, acquired, surfaced,
                  readySignalled, inflight, reviewTimers >>

\* resetPhotoBooth: the Reshoot button of the strip view.
resetPhotoBooth ==
  /\ ~RenderPending
  /\ mounted
  /\ rendered.view = "strip"
  /\ showPhotoStrip' = FALSE
  /\ capturedPhotos' = ResetPhotos
  /\ countdown' = NoCountdown
  /\ lastEvent' = "reset"
  /\ UNCHANGED << stream, isCapturing, currentFilter, isLoading, showCurtains,
                  curtainsAnimating >>
  /\ Commit
  /\ UNCHANGED << mounted, supported, acqPc, attempts, acquired, surfaced,
                  readySignalled, inflight, reviewTimers >>

\* ---------------------------------------------------------------- the strip
MARGIN == 20

PHOTO_HEIGHT == 165

PHOTO_SPACING == 20

\* yPosition of the still at (0-based) index in capturedPhotos.
yPosition(index) == MARGIN + index * (PHOTO_HEIGHT + PHOTO_SPACING)

\* The indexes capturedPhotos.forEach visits.
IndexesOf(photos) == { n - 1 : n \in 1..Len(photos) }

\* Whether the data URL of a still loads as an image: the export of a frame
\* without pixels (an empty canvas) is "data:,", which never fires onload.
Decodable(photo) == photo.dataUrl.live

\* Mutant of DrawPhoto: the still is placed by its order of arrival.
DrawPhoto_ByArrival(canvas, index, photo, loadedCount) ==
  [canvas EXCEPT !.placed = @ \cup { [ index |-> index, photo |-> photo,
                                       y |-> yPosition(loadedCount - 1),
                                       arrival |-> loadedCount ] }]

\* The drawing done by img.onload for the still at index, the loadedCount-th
\* to arrive: frame, image and border at yPosition.
DrawPhoto(canvas, index, photo, loadedCount) ==
  [canvas EXCEPT !.placed = @ \cup { [ index |-> index, photo |-> photo,
                                       y |-> yPosition(index),
                                       arrival |-> loadedCount ] }]

\* Mutant of CaptionDue: the caption is drawn from the second image on.
CaptionDue_Early(loadedCount) == loadedCount >= 2

\* loadedCount === 3 in img.onload.
CaptionDue(loadedCount) == loadedCount = 3

\* A 0.1 s timer of the strip effect fires and runs the createPhotoStrip it
\* was given: nothing without the strip <canvas>, three stills in its
\* closure and a 2d context, else the canvas is sized (which clears it),
\* the background and border are painted and the three images start loading.
createPhotoStrip ==
  /\ ~RenderPending
  /\ stripTimers # << >>
  /\ stripTimers' = Tail(stripTimers)
  /\ LET photos == Head(stripTimers)
     IN \E context \in BOOLEAN :
          IF ~StripCanvasRefCurrent \/ Len(photos) # 3 \/ ~context
            THEN /\ UNCHANGED << stripCanvas, stripJobs >>
                 /\ lastEvent' = "createPhotoStripSkipped"
            ELSE /\ stripCanvas' = [BlankCanvas EXCEPT !.background = TRUE]
                 /\ stripJobs' = Append(stripJobs,
                                   [ photos |-> photos,
                                     pending |-> IndexesOf(photos),
                                     loadedCount |-> 0 ])
                 /\ lastEvent' = "createPhotoStrip"
  /\ UNCHANGED << stream, isCapturing, countdown, capturedPhotos, currentFilter,
                  showPhotoStrip, isLoading, showCurtains, curtainsAnimating,
                  mounted, rendered, videoSrc, tracks, supported, acqPc,
                  attempts, acquired, surfaced, readySignalled, inflight,
                  reviewTimers >>

\* img.onload of the still at index in the createPhotoStrip call j: the
\* still is drawn, loadedCount is incremented and the caption is drawn when
\* that makes three.
ImageLoaded(j, index) ==
  /\ j \in 1..Len(stripJobs)
  /\ index \in stripJobs[j].pending
  /\ Decodable(stripJobs[j].photos[index + 1])
  /\ LET job == stripJobs[j]
         loadedCount == job.loadedCount + 1
         drawn == DrawPhoto(stripCanvas, index, job.photos[index + 1], loadedCount)
     IN /\ stripCanvas' =
             IF CaptionDue(loadedCount)
               THEN [drawn EXCEPT !.caption = Append(@, Cardinality(drawn.placed))]
               ELSE drawn
        /\ stripJobs' =
             IF job.pending = {index}
               THEN RemoveAt(stripJobs, j)
               ELSE [stripJobs EXCEPT ![j] =
                       [@ EXCEPT !.pending = @ \ {index},
                                 !.loadedCount = loadedCount]]
  /\ lastEvent' = "imageLoaded"
  /\ UNCHANGED << stream, isCapturing, countdown, capturedPhotos, currentFilter,
                  showPhotoStrip, isLoading, showCurtains, curtainsAnimating,
                  mounted, rendered, videoSrc, tracks, supported, acqPc,
                  attempts, acquired, surfaced, readySignalled, inflight,
                  reviewTimers, stripTimers >>

\* ------------------------------------------------------------ specification
Next ==
  \/ InsertCoin
  \/ \E i \in Starts : CurtainTimer(i)
  \/ \E i \in Starts : GetUserMediaResolves(i)
  \/ \E i \in Starts : GetUserMediaRejects(i)
  \/ \E i \in Starts : PreviewReady(i)
  \/ \E i \in Starts : PreviewFails(i)
  \/ Render
  \/ Unmount
  \/ Shutter
  \/ \E k \in 1..Len(inflight) : CountdownTick(k)
  \/ \E k \in 1..Len(inflight) : CaptureFrame(k)
  \/ ReviewTimer
  \/ \E f \in Filters : SelectFilter(f)
  \/ resetPhotoBooth
  \/ createPhotoStrip
  \/ \E j \in 1..Len(stripJobs) : \E index \in 0..2 : ImageLoaded(j, index)

Spec == Init /\ [][Next]_vars

FairSpec == Spec /\ WF_vars(ReviewTimer) /\ WF_vars(Render)

\* The browser fires every timer that is due: the waits of the countdown,
\* the strip timer, the review timer; React runs every render it scheduled.
TimerSpec ==
  /\ Spec
  /\ WF_vars(Render)
  /\ WF_vars(ReviewTimer)
  /\ WF_vars(createPhotoStrip)
  /\ WF_vars(\E k \in 1..Len(inflight) : CountdownTick(k))
  /\ WF_vars(\E k \in 1..Len(inflight) : CaptureFrame(k))

\* ------------------------------------------------------------------ claims
Last(q) == q[Len(q)]

Settled(i) == acqPc[i] \in {"idle", "done", "failed"}

\* C1: in every reachable state the number of captured stills is at most 3.
C1_AtMostThreeStills == Len(capturedPhotos) <= 3

C1_Witness == Len(capturedPhotos) = 3 /\ lastEvent = "shutterRejected"

\* C2: a shutter click made while a capture is in flight is rejected: it
\* starts no second countdown and changes neither the stills nor the
\* capture in flight, and at most one capture is ever in flight.
C2_ReentrantShutterRejected ==
  [][ /\ Len(inflight') <= 1
      /\ (inflight # << >> /\ lastEvent' \in {"shutter", "shutterRejected"})
           => /\ lastEvent' = "shutterRejected"
              /\ UNCHANGED << inflight, capturedPhotos, countdown, isCapturing >> ]_vars

C2_Witness ==
  /\ lastEvent = "shutterRejected"
  /\ Len(inflight) = 1
  /\ Len(capturedPhotos) < 3

\* C3: the phase is Reviewing only in states that hold exactly 3 stills.
C3_ReviewingOnlyWithThree == Phase = "Reviewing" => Len(capturedPhotos) = 3

C3_Witness == Phase = "Reviewing" /\ lastEvent = "reviewTimer"

\* C4: once 3 stills are held in the Live phase, the phase becomes Reviewing
\* with no further user action (or the session has been torn down), given
\* that the scheduled timer fires.
C4_ThreeStillsLeadToReviewing ==
  (Phase = "Live" /\ Len(capturedPhotos) = 3 /\ mounted)
     ~> (Phase = "Reviewing" \/ ~mounted)

C4_Witness ==
  /\ Phase = "Reviewing"
  /\ rendered.view = "strip"
  /\ reviewTimers = 0
  /\ lastEvent = "render"

\* C5: right after a reset the still count is 0 and the phase is Live.
C5_ResetYieldsEmptyLive ==
  lastEvent = "reset" => (Len(capturedPhotos) = 0 /\ Phase = "Live")

C5_Witness == lastEvent = "reset" /\ Phase = "Live" /\ stream # NoStream

\* C6: when device acquisition has failed on all three configurations and no
\* stream was acquired, the phase remains AwaitingDevice.
C6_FailedAcquisitionStaysAwaiting ==
  ( /\ mounted
    /\ stream = NoStream
    /\ \E i \in Starts : surfaced[i] = "DeviceAcquisitionFailed" )
  => Phase = "AwaitingDevice"

\* C7: the filter of a still just appended from the live preview is the
\* active filter selection at the moment of its rasterization.
C7_StillHasFilterAtRasterization ==
  (lastEvent = "captured" /\ Last(capturedPhotos).dataUrl.live)
    => Last(capturedPhotos).dataUrl.filter = CssOf(currentFilter)

\* C8: an acquisition tries the configurations in their fixed order, stops at
\* the first that succeeds and takes its stream, and fails exactly when the
\* platform lacks the capability (then nothing is tried) or all three failed.
C8_FirstSuccessfulConfig ==
  \A i \in Starts :
    LET a == attempts[i]
        started == acqPc[i] \notin {"idle", "curtain"}
        failed == surfaced[i] \in {"DeviceUnsupported", "DeviceAcquisitionFailed"}
    IN /\ Len(a) <= Len(cameraConfigs)
       /\ \A k \in 1..Len(a) : a[k].config = k
       /\ \A k \in 1..(Len(a) - 1) : a[k].outcome = "rejected"
       /\ (acquired[i] # NoStream) <=> (a # << >> /\ Last(a).outcome = "resolved")
       /\ (acqPc[i] = "getUserMedia") <=> (a # << >> /\ Last(a).outcome = "pending")
       /\ (~supported) => a = << >>
       /\ failed <=> /\ started
                     /\ \/ ~supported
                        \/ /\ Len(a) = Len(cameraConfigs)
                           /\ \A k \in 1..Len(a) : a[k].outcome = "rejected"

C8_Witness ==
  \E i \in Starts :
    /\ Len(attempts[i]) = 3
    /\ attempts[i][1].outcome = "rejected"
    /\ attempts[i][2].outcome = "rejected"
    /\ attempts[i][3].outcome = "resolved"
    /\ acquired[i] = i

\* C9: the session is usable with a stream only after the preview bound to
\* that stream has signalled readiness.
C9_UsableOnlyAfterReady ==
  (mounted /\ ~showCurtains /\ ~isLoading /\ stream # NoStream)
    => stream \in readySignalled

\* C10: after teardown no track of any acquired stream is live, also when
\* the last acquisition delivered its stream after the teardown.
C10_TeardownStopsEveryTrack ==
  ( /\ ~mounted
    /\ \A i \in Starts : Settled(i)
    /\ lastEvent = "getUserMediaResolved" )
  => \A s \in Starts : tracks[s] # "live"

\* C11: a reset stops no track, does not replace the stream and does not
\* change the filter selection; of the component's state it changes only the
\* stills, the countdown display and the Reviewing flag.
C11_ResetLeavesDeviceSession ==
  [][ lastEvent' = "reset"
        => UNCHANGED << tracks, stream, acquired, currentFilter, isCapturing,
                        isLoading, showCurtains, curtainsAnimating >> ]_vars

C11_Witness ==
  /\ lastEvent = "reset"
  /\ stream # NoStream
  /\ tracks[stream] = "live"
  /\ currentFilter # InitialFilter
  /\ capturedPhotos = << >>

\* C12: whatever the order in which the three images load, the still at
\* capture index i (0, 1, 2) is drawn at vertical offset 20 + i * 185, and
\* it is the i-th still of the collection.
C12_StillsPlacedByIndex ==
  \A p \in stripCanvas.placed :
    /\ p.index \in {0, 1, 2}
    /\ p.y = 20 + p.index * 185
    /\ p.photo = capturedPhotos[p.index + 1]

C12_Witness ==
  /\ Cardinality(stripCanvas.placed) = 3
  /\ \E p \in stripCanvas.placed : p.index = 2 /\ p.arrival = 1
  /\ \E p \in stripCanvas.placed : p.index = 0 /\ p.arrival = 3

\* C13: the caption is drawn at most once on a strip, only by the image
\* that completes the three placements, and it is there once all three
\* stills are placed, whatever the order in which the images load.
C13_CaptionAfterThreeStills ==
  /\ Len(stripCanvas.caption) <= 1
  /\ \A n \in 1..Len(stripCanvas.caption) : stripCanvas.caption[n] = 3
  /\ Len(stripCanvas.caption) = 1 <=> Cardinality(stripCanvas.placed) = 3

C13_Witness ==
  /\ lastEvent = "imageLoaded"
  /\ stripCanvas.caption = << 3 >>
  /\ \E p \in stripCanvas.placed : p.index = 1 /\ p.arrival = 3
  /\ \E p \in stripCanvas.placed : p.index = 0 /\ p.arrival = 2

\* C14: the acquisition of a session start begins only when the 2 s timer of
\* that start fires, never with the click, and the phase leaves Intro only
\* in such a timer step; while the phase is Intro no acquisition has begun.
C14_AcquisitionAfterCurtain ==
  [][ /\ \A i \in Starts :
           (acqPc[i] \in {"idle", "curtain"} /\ acqPc'[i] \notin {"idle", "curtain"})
             => (acqPc[i] = "curtain" /\ lastEvent' = "curtainTimer")
      /\ \A i \in Starts :
           acqPc'[i] \in {"idle", "curtain"}
             => (attempts'[i] = << >> /\ acquired'[i] = NoStream)
      /\ (Phase = "Intro" /\ Phase' # "Intro") => lastEvent' = "curtainTimer"
      /\ (lastEvent' = "curtainTimer" /\ mounted) => Phase' # "Intro"
      /\ (mounted' /\ Phase' = "Intro")
           => \A i \in Starts : acqPc'[i] \in {"idle", "curtain"} ]_vars

C14_Witness ==
  /\ lastEvent = "curtainTimer"
  /\ Phase = "AwaitingDevice"
  /\ \E i \in Starts : acqPc[i] = "getUserMedia" /\ Len(attempts[i]) = 1
  /\ \E i \in Starts : acqPc[i] = "curtain"

\* C15: an accepted capture ends: while it runs nothing but its own
\* rasterization changes the stills, which appends exactly one still when
\* there is a frame and none otherwise, and clears the in-progress marker;
\* and the capture leads to a state (of the mounted component) with no
\* capture running and the marker cleared, where the shutter is enabled
\* when fewer than 3 stills are held.
C15_CaptureTerminates ==
  /\ [][ /\ lastEvent' = "captured"
              => /\ Len(capturedPhotos') = Len(capturedPhotos) + 1
                 /\ ~isCapturing' /\ inflight' = << >>
         /\ lastEvent' = "captureAborted"
              => /\ capturedPhotos' = capturedPhotos
                 /\ (mounted => ~isCapturing') /\ inflight' = << >>
         /\ (inflight # << >> /\ lastEvent' \notin {"captured", "captureAborted"})
              => (capturedPhotos' = capturedPhotos /\ inflight' # << >>) ]_vars
  /\ (mounted /\ inflight # << >>)
       ~> \/ ~mounted
          \/ /\ inflight = << >> /\ ~isCapturing /\ ~RenderPending
             /\ Len(capturedPhotos) < 3 => ~ShutterDisabled

C15_Witness ==
  /\ mounted /\ lastEvent = "render"
  /\ inflight = << >> /\ ~isCapturing
  /\ Len(capturedPhotos) = 1
  /\ rendered.view = "booth" /\ ~ShutterDisabled

\* C16: a capture whose rasterization finds no video element, no canvas
\* element or no 2d context appends no still, shows no error and schedules
\* no transition to Reviewing; the phase and the stills are then as they
\* were when the shutter was pressed, since neither changes while the
\* capture runs.
C16_UnavailableSurfaceIsSilent ==
  [][ /\ lastEvent' = "captureAborted"
           => /\ capturedPhotos' = capturedPhotos
              /\ reviewTimers' = reviewTimers
              /\ surfaced' = surfaced
              /\ showPhotoStrip' = showPhotoStrip
              /\ Phase' = Phase
      /\ (inflight # << >> /\ inflight' # << >>)
           => /\ capturedPhotos' = capturedPhotos
              /\ mounted' => Phase' = Phase ]_vars

C16_Witness ==
  /\ lastEvent = "captureAborted"
  /\ mounted
  /\ Len(capturedPhotos) = 2
  /\ reviewTimers = 0
  /\ Phase = "Live"

\* C17: a step changes the stills only by appending one still at the end,
\* the earlier ones staying as they were and in their order, or by the
\* reset clearing all of them.
C17_StillsAppendOrClear ==
  [][ \/ capturedPhotos' = capturedPhotos
      \/ /\ lastEvent' = "captured"
         /\ Len(capturedPhotos') = Len(capturedPhotos) + 1
         /\ SubSeq(capturedPhotos', 1, Len(capturedPhotos)) = capturedPhotos
      \/ /\ lastEvent' = "reset"
         /\ capturedPhotos' = << >> ]_vars

C17_Witness ==
  /\ lastEvent = "captured"
  /\ Len(capturedPhotos) = 2
  /\ capturedPhotos[1].dataUrl.filter # capturedPhotos[2].dataUrl.filter

\* C18: a capture shows 3, 2, 1 and the smile cue in this order, each once;
\* the frame is rasterized only when the fourth wait has ended; a countdown
\* stage changes neither the stills, the phase nor the filter selection.
C18_CountdownStages ==
  [][ LET Stages == << "3...", "2...", "1...", "Smile..." >>
      IN /\ lastEvent' = "shutter"
              => /\ Len(inflight') = 1 /\ inflight'[1].stage = 1
                 /\ countdown' = Stages[1]
         /\ lastEvent' = "countdownTick"
              => /\ Len(inflight) = 1 /\ Len(inflight') = 1
                 /\ inflight'[1].stage = inflight[1].stage + 1
                 /\ inflight'[1].stage <= 4
                 /\ mounted => /\ countdown = Stages[inflight[1].stage]
                               /\ countdown' = Stages[inflight'[1].stage]
                 /\ UNCHANGED << capturedPhotos, currentFilter >>
                 /\ Phase' = Phase
         /\ lastEvent' \in {"captured", "captureAborted"}
              => /\ Len(inflight) = 1 /\ inflight[1].stage = 4
                 /\ mounted => (countdown = Stages[4] /\ countdown' = NoCountdown)
         /\ (mounted /\ inflight # << >> /\ countdown' # countdown)
              => lastEvent' \in {"countdownTick", "captured", "captureAborted"} ]_vars

C18_Witness ==
  /\ lastEvent = "countdownTick"
  /\ mounted
  /\ countdown = "Smile..."
  /\ Len(inflight) = 1 /\ inflight[1].stage = 4
  /\ Len(capturedPhotos) = 1

\* C19: the filter selection starts at 2000s and a step changes it only
\* when it is a filter selection made in the Live phase.
C19_FilterChangesOnlyBySelection ==
  /\ currentFilter = "2000s"
  /\ [][ currentFilter' # currentFilter
           => /\ lastEvent' = "selectFilter"
              /\ Phase = "Live" /\ Phase' = "Live"
              /\ rendered.view = "booth" ]_vars

C19_Witness ==
  /\ lastEvent = "selectFilter"
  /\ currentFilter = "90s"
  /\ Len(capturedPhotos) = 1
  /\ isCapturing

\* C20: whenever the committed phase is Live and a stream is held, the
\* mounted <video> is bound to that stream.
C20_PreviewBoundToStream ==
  (mounted /\ ~RenderPending /\ Phase = "Live" /\ stream # NoStream)
    => videoSrc = stream

\* The streams with running tracks.
LiveStreams == { s \in Starts : tracks[s] = "live" }

\* C21: once every acquisition begun by the session starts has settled and
\* the render has committed, at most one acquired stream has running
\* tracks and it is the stream the session holds, and the session is not
\* in Live without a stream.
C21_OneLiveStreamAfterStarts ==
  ( /\ mounted /\ ~RenderPending
    /\ \A i \in Starts : Settled(i)
    /\ \E i \in Starts : acquired[i] # NoStream )
  => /\ Cardinality(LiveStreams) <= 1
     /\ LiveStreams \subseteq {stream}
     /\ Phase = "Live" => stream # NoStream

=============================================================================
